---- MODULE Spec2Model ----
(***************************************************************************)
(* Model of shell-parser-common-rs, src/charset.rs: the Charset enum, the  *)
(* label parser parse_charset and the decode dispatcher Charset::decode.   *)
(*                                                                         *)
(* A &str is modelled by what it is in Rust, a sequence of UTF-8 bytes     *)
(* (0..255); the parser's inputs are written as sequences of one-character *)
(* strings.  The decoders and encoders of encoding_rs that decode calls    *)
(* are modelled after the WHATWG Encoding Standard, which encoding_rs      *)
(* implements.                                                             *)
(***************************************************************************)
EXTENDS Integers, Sequences, FiniteSets, TLC

VARIABLES pc, input, presult, bytes, units, src, enc, encErr, cs, dresult

vars == <<pc, input, presult, bytes, units, src, enc, encErr, cs, dresult>>

(***************************************************************************)
(* Bounds of the model.                                                    *)
(***************************************************************************)
\* Characters after the head of a parser input.
MaxSuffixLen == 2
\* Characters of a text handed to an encoder.
MaxChars == 2
\* Units (bytes, or whole characters) of a raw byte sequence.
MaxUnits == 3

RECURSIVE SeqsUpTo(_, _)
SeqsUpTo(S, n) ==
    IF n = 0 THEN {<<>>}
    ELSE LET shorter == SeqsUpTo(S, n - 1)
         IN  shorter \cup {Append(s, x) : s \in {t \in shorter : Len(t) = n - 1}, x \in S}

Prefixes(s) == {SubSeq(s, 1, n) : n \in 0..Len(s)}

(***************************************************************************)
(* enum Charset                                                            *)
(***************************************************************************)
Charset == {"ASCII", "ShiftJIS", "ISO2022JP", "EUCJP", "UTF8", "Default"}

(***************************************************************************)
(* nom: tag, map, alt over ShellParseError = VerboseError<&str>            *)
(***************************************************************************)
POk(remain, value) == [ok |-> TRUE, remain |-> remain, value |-> value]
PErr(errors) == [ok |-> FALSE, errors |-> errors]

\* tag(t)(input): the literal t at the very start of input, byte for byte.
tag(t, in) ==
    IF Len(in) >= Len(t) /\ SubSeq(in, 1, Len(t)) = t
    THEN POk(SubSeq(in, Len(t) + 1, Len(in)), t)
    ELSE PErr(<< <<in, "Tag">> >>)

\* map(p, |_| v): the value of a success replaced by v.
map(r, v) == IF r.ok THEN POk(r.remain, v) ELSE r

charset_ascii_typo(in) == map(tag(<<"A", "S", "C", "I">>, in), "ASCII")
charset_ascii(in) == map(tag(<<"A", "S", "C", "I", "I">>, in), "ASCII")

charset_shift_jis_nocase(in) ==
    LET r == tag(<<"S", "h", "i", "f", "t", "_", "J", "I", "S">>, in)
    IN  IF r.ok THEN map(r, "ShiftJIS")
        ELSE map(tag(<<"s", "h", "i", "f", "t", "_", "j", "i", "s">>, in), "ShiftJIS")
charset_shift_jis(in) ==
    map(tag(<<"S", "h", "i", "f", "t", "_", "J", "I", "S">>, in), "ShiftJIS")

charset_iso_2022_jp(in) ==
    map(tag(<<"I", "S", "O", "-", "2", "0", "2", "2", "-", "J", "P">>, in), "ISO2022JP")

charset_euc_jp(in) == map(tag(<<"E", "U", "C", "-", "J", "P">>, in), "EUCJP")

charset_utf_8_copied(in) == map(tag(<<"E", "U", "C", "-", "J", "P">>, in), "UTF8")
charset_utf_8_default(in) == map(tag(<<"U", "T", "F", "-", "8">>, in), "Default")
charset_utf_8(in) == map(tag(<<"U", "T", "F", "-", "8">>, in), "UTF8")

\* The alternatives of parse_charset, by their position in the alt tuple.
Alternative(k, in) ==
    CASE k = 1 -> charset_ascii(in)
      [] k = 2 -> charset_shift_jis(in)
      [] k = 3 -> charset_iso_2022_jp(in)
      [] k = 4 -> charset_euc_jp(in)
      [] k = 5 -> charset_utf_8(in)

\* alt((...)): the first alternative that succeeds; when none does, the last
\* alternative's error (ParseError::or keeps the other error) with
\* ErrorKind::Alt appended.
RECURSIVE alt(_, _, _)
alt(order, k, in) ==
    LET r == Alternative(order[k], in)
    IN  IF r.ok THEN r
        ELSE IF k = Len(order) THEN PErr(Append(r.errors, <<in, "Alt">>))
        ELSE alt(order, k + 1, in)

CodeOrder == <<1, 2, 3, 4, 5>>

parse_charset(in) == alt(CodeOrder, 1, in)

(***************************************************************************)
(* UTF-8.  A sequence that is cut short or continued by a byte out of      *)
(* range is replaced, as a whole, by one U+FFFD and decoding resumes at    *)
(* the offending byte (encoding_rs's UTF-8 decoder and std's               *)
(* String::from_utf8_lossy agree on this).                                 *)
(***************************************************************************)
Decoded(text, had_errors) == [text |-> text, had_errors |-> had_errors]

REPLACEMENT == <<\hEF, \hBF, \hBD>>

\* The UTF-8 bytes of a code point.
Utf8Of(cp) ==
    IF cp < \h80 THEN <<cp>>
    ELSE IF cp < \h800 THEN <<\hC0 + (cp \div 64), \h80 + (cp % 64)>>
    ELSE IF cp < \h10000
         THEN <<\hE0 + (cp \div 4096), \h80 + ((cp \div 64) % 64), \h80 + (cp % 64)>>
    ELSE <<\hF0 + (cp \div 262144), \h80 + ((cp \div 4096) % 64),
           \h80 + ((cp \div 64) % 64), \h80 + (cp % 64)>>

\* Continuation bytes a lead byte asks for; -1 for a byte that starts nothing.
Utf8Need(x) ==
    IF x < \h80 THEN 0
    ELSE IF x >= \hC2 /\ x <= \hDF THEN 1
    ELSE IF x >= \hE0 /\ x <= \hEF THEN 2
    ELSE IF x >= \hF0 /\ x <= \hF4 THEN 3
    ELSE -1

Utf8Lower(x) == IF x = \hE0 THEN \hA0 ELSE IF x = \hF0 THEN \h90 ELSE \h80
Utf8Upper(x) == IF x = \hED THEN \h9F ELSE IF x = \hF4 THEN \h8F ELSE \hBF

\* How many of the continuation bytes after the lead at b[i] are acceptable.
Utf8Matched(b, i) ==
    LET need == Utf8Need(b[i])
        good(j) == /\ i + j <= Len(b)
                   /\ b[i + j] >= (IF j = 1 THEN Utf8Lower(b[i]) ELSE \h80)
                   /\ b[i + j] <= (IF j = 1 THEN Utf8Upper(b[i]) ELSE \hBF)
    IN  CHOOSE m \in 0..need : (\A j \in 1..m : good(j)) /\ (m = need \/ ~good(m + 1))

RECURSIVE Utf8Run(_, _, _, _)
Utf8Run(b, i, out, err) ==
    IF i > Len(b) THEN Decoded(out, err)
    ELSE LET need == Utf8Need(b[i])
         IN  IF need < 0 THEN Utf8Run(b, i + 1, out \o REPLACEMENT, TRUE)
             ELSE LET m == Utf8Matched(b, i)
                  IN  IF m = need
                      THEN Utf8Run(b, i + need + 1, out \o SubSeq(b, i, i + need), err)
                      ELSE Utf8Run(b, i + m + 1, out \o REPLACEMENT, TRUE)

Utf8Decode(b) == Utf8Run(b, 1, <<>>, FALSE)

\* The code points of a valid &str.
RECURSIVE Chars(_)
Chars(s) ==
    IF s = <<>> THEN <<>>
    ELSE LET n == Utf8Need(s[1])
             cp == CASE n = 0 -> s[1]
                     [] n = 1 -> (s[1] - \hC0) * 64 + (s[2] - \h80)
                     [] n = 2 -> (s[1] - \hE0) * 4096 + (s[2] - \h80) * 64 + (s[3] - \h80)
                     [] n = 3 -> (s[1] - \hF0) * 262144 + (s[2] - \h80) * 4096
                                 + (s[3] - \h80) * 64 + (s[4] - \h80)
         IN  <<cp>> \o Chars(SubSeq(s, n + 2, Len(s)))

RECURSIVE Utf8OfAll(_)
Utf8OfAll(cps) == IF cps = <<>> THEN <<>> ELSE Utf8Of(Head(cps)) \o Utf8OfAll(Tail(cps))

(***************************************************************************)
(* UTF-16LE / UTF-16BE, which decode switches to when it sniffs their BOM. *)
(***************************************************************************)
RECURSIVE Utf16Run(_, _, _, _, _, _)
Utf16Run(b, i, be, surrogate, out, err) ==
    IF i > Len(b)
    THEN IF surrogate # 0 THEN Decoded(out \o REPLACEMENT, TRUE) ELSE Decoded(out, err)
    ELSE IF i = Len(b) THEN Decoded(out \o REPLACEMENT, TRUE)
    ELSE LET unit == IF be THEN b[i] * 256 + b[i + 1] ELSE b[i + 1] * 256 + b[i]
         IN  IF surrogate # 0
             THEN IF unit >= \hDC00 /\ unit <= \hDFFF
                  THEN Utf16Run(b, i + 2, be, 0,
                                out \o Utf8Of(\h10000 + (surrogate - \hD800) * 1024
                                              + (unit - \hDC00)), err)
                  ELSE Utf16Run(b, i, be, 0, out \o REPLACEMENT, TRUE)
             ELSE IF unit >= \hD800 /\ unit <= \hDBFF
                  THEN Utf16Run(b, i + 2, be, unit, out, err)
             ELSE IF unit >= \hDC00 /\ unit <= \hDFFF
                  THEN Utf16Run(b, i + 2, be, 0, out \o REPLACEMENT, TRUE)
             ELSE Utf16Run(b, i + 2, be, 0, out \o Utf8Of(unit), err)

Utf16Decode(b, be) == Utf16Run(b, 1, be, 0, <<>>, FALSE)

(***************************************************************************)
(* Index jis0208 (pointer -> code point), as far as the byte pairs of the  *)
(* model reach into it: row 3 (full-width digits and letters), row 4       *)
(* (hiragana) and row 5 (katakana) whole, and of the other rows the        *)
(* entries Jis0208Table lists; every other pointer the model's bytes can   *)
(* form is null in the index.  NoCodePoint is the index's null.            *)
(***************************************************************************)
NoCodePoint == -1

Jis0208Table ==
    1 :> \h3001 @@ 2 :> \h3002 @@ 10 :> \h309B @@ 28 :> \h2015 @@
    63 :> \h00F7 @@ 64 :> \hFF1D @@ 65 :> \h2260 @@ 67 :> \hFF1E @@
    95 :> \h25A1 @@ 97 :> \h25B3 @@ 98 :> \h25B2 @@ 99 :> \h25BD @@
    100 :> \h25BC @@ 120 :> \h220B @@ 122 :> \h2287 @@ 124 :> \h2283 @@
    126 :> \h2229 @@ 160 :> \h226A @@ 162 :> \h221A @@ 177 :> \h266F @@
    179 :> \h266A @@ 187 :> \h25EF @@ 565 :> \h0411 @@ 566 :> \h0412 @@
    574 :> \h0419 @@ 592 :> \h042B @@ 627 :> \h043E @@ 628 :> \h043F @@
    629 :> \h0440 @@ 631 :> \h0442 @@ 659 :> \h2502 @@ 661 :> \h2510 @@
    663 :> \h2514 @@ 664 :> \h251C @@ 686 :> \h2530 @@ 2445 :> \h62F6 @@
    2447 :> \h64E6 @@ 2448 :> \h672D @@ 2470 :> \h7B97 @@ 2474 :> \h8CDB @@
    2477 :> \h65AC @@ 2510 :> \h7949 @@ 2522 :> \h8A8C @@ 2527 :> \h98FC @@
    2537 :> \h6642 @@ 2821 :> \h690D @@ 2823 :> \h71ED @@ 2824 :> \h7E54 @@
    2846 :> \h6D78 @@ 2850 :> \h771F @@ 2853 :> \h7D33 @@ 2886 :> \h5E25 @@
    2898 :> \h968F @@ 2903 :> \h6570 @@ 2913 :> \h88FE @@ 3103 :> \h8535 @@
    3105 :> \h9020 @@ 3106 :> \h4FC3 @@ 3128 :> \h640D @@ 3132 :> \h591A @@
    3135 :> \h8A51 @@ 3168 :> \h9EDB @@ 3180 :> \h5544 @@ 3185 :> \h6CA2 @@
    3195 :> \h53EA @@ 6205 :> \h78DA @@ 6207 :> \h78F4 @@ 6208 :> \h7907 @@
    6230 :> \h79B9 @@ 6234 :> \h79E7 @@ 6237 :> \h79E3 @@ 6270 :> \h7ABF @@
    6282 :> \h7AE2 @@ 6287 :> \h7B0F @@ 6297 :> \h7B50 @@ 6393 :> \h7D1C @@
    6394 :> \h7D15 @@ 6402 :> \h7D46 @@ 6420 :> \h7DB5 @@ 6455 :> \h7E32 @@
    6456 :> \h7E3A @@ 6457 :> \h7E67 @@ 6459 :> \h7E56 @@ 6487 :> \h7F4C @@
    6489 :> \h7F4E @@ 6491 :> \h7F51 @@ 6492 :> \h7F55 @@ 6514 :> \h7FB9 @@
    6518 :> \h8B71 @@ 6521 :> \h7FCA @@ 6554 :> \h807D @@ 6566 :> \h80E5 @@
    6571 :> \h80D6 @@ 7333 :> \h9322 @@ 7335 :> \h9323 @@ 7336 :> \h933A @@
    7358 :> \h93E4 @@ 7362 :> \h9403 @@ 7365 :> \h9436 @@ 7398 :> \h95AD @@
    7410 :> \h95D6 @@ 7415 :> \h9621 @@ 7425 :> \h965E @@ 7803 :> \h69C7 @@
    7805 :> \h7464 @@ 7806 :> \h51DC

Jis0208(pointer) ==
    LET row == (pointer \div 94) + 1
        cell == pointer % 94
    IN  CASE row = 3 /\ cell >= 15 /\ cell <= 24 -> \hFF10 + (cell - 15)
          [] row = 3 /\ cell >= 32 /\ cell <= 57 -> \hFF21 + (cell - 32)
          [] row = 3 /\ cell >= 64 /\ cell <= 89 -> \hFF41 + (cell - 64)
          [] row = 4 /\ cell <= 82 -> \h3041 + cell
          [] row = 5 /\ cell <= 85 -> \h30A1 + cell
          [] pointer \in DOMAIN Jis0208Table -> Jis0208Table[pointer]
          [] OTHER -> NoCodePoint

\* The pointer of a code point in index jis0208 (the encoders' direction).
Jis0208Pointer(cp) ==
    CASE cp >= \hFF10 /\ cp <= \hFF19 -> 2 * 94 + 15 + (cp - \hFF10)
      [] cp >= \hFF21 /\ cp <= \hFF3A -> 2 * 94 + 32 + (cp - \hFF21)
      [] cp >= \hFF41 /\ cp <= \hFF5A -> 2 * 94 + 64 + (cp - \hFF41)
      [] cp >= \h3041 /\ cp <= \h3093 -> 3 * 94 + (cp - \h3041)
      [] cp >= \h30A1 /\ cp <= \h30F6 -> 4 * 94 + (cp - \h30A1)
      [] OTHER -> NoCodePoint

IsAscii(x) == x >= 0 /\ x <= \h7F

(***************************************************************************)
(* Shift_JIS decoder.                                                      *)
(***************************************************************************)
ShiftJisPair(lead, byte) ==
    LET offset == IF byte < \h7F THEN \h40 ELSE \h41
        leadOffset == IF lead < \hA0 THEN \h81 ELSE \hC1
        inRange == (byte >= \h40 /\ byte <= \h7E) \/ (byte >= \h80 /\ byte <= \hFC)
        pointer == (lead - leadOffset) * 188 + byte - offset
    IN  IF ~inRange THEN NoCodePoint
        ELSE IF pointer >= 8836 /\ pointer <= 10715 THEN \hE000 - 8836 + pointer
        ELSE Jis0208(pointer)

RECURSIVE ShiftJisRun(_, _, _, _, _)
ShiftJisRun(b, i, lead, out, err) ==
    IF i > Len(b)
    THEN IF lead # 0 THEN Decoded(out \o REPLACEMENT, TRUE) ELSE Decoded(out, err)
    ELSE LET byte == b[i]
         IN  IF lead # 0
             THEN LET cp == ShiftJisPair(lead, byte)
                  IN  IF cp # NoCodePoint
                      THEN ShiftJisRun(b, i + 1, 0, out \o Utf8Of(cp), err)
                      ELSE ShiftJisRun(b, IF IsAscii(byte) THEN i ELSE i + 1, 0,
                                       out \o REPLACEMENT, TRUE)
             ELSE IF IsAscii(byte) \/ byte = \h80
                  THEN ShiftJisRun(b, i + 1, 0, out \o Utf8Of(byte), err)
             ELSE IF byte >= \hA1 /\ byte <= \hDF
                  THEN ShiftJisRun(b, i + 1, 0, out \o Utf8Of(\hFF61 - \hA1 + byte), err)
             ELSE IF (byte >= \h81 /\ byte <= \h9F) \/ (byte >= \hE0 /\ byte <= \hFC)
                  THEN ShiftJisRun(b, i + 1, byte, out, err)
             ELSE ShiftJisRun(b, i + 1, 0, out \o REPLACEMENT, TRUE)

ShiftJisDecode(b) == ShiftJisRun(b, 1, 0, <<>>, FALSE)

(***************************************************************************)
(* EUC-JP decoder.  Index jis0212 (lead 0x8F) is not modelled: no byte or  *)
(* character of the model reaches it, and every pointer into it is null.   *)
(***************************************************************************)
Jis0212(pointer) == NoCodePoint

RECURSIVE EucJpRun(_, _, _, _, _, _)
EucJpRun(b, i, lead, jis0212, out, err) ==
    IF i > Len(b)
    THEN IF lead # 0 THEN Decoded(out \o REPLACEMENT, TRUE) ELSE Decoded(out, err)
    ELSE LET byte == b[i]
             trail == byte >= \hA1 /\ byte <= \hFE
         IN  IF lead = \h8E /\ byte >= \hA1 /\ byte <= \hDF
             THEN EucJpRun(b, i + 1, 0, FALSE, out \o Utf8Of(\hFF61 - \hA1 + byte), err)
             ELSE IF lead = \h8F /\ trail
             THEN EucJpRun(b, i + 1, byte, TRUE, out, err)
             ELSE IF lead # 0
             THEN LET pointer == (lead - \hA1) * 94 + byte - \hA1
                      cp == IF lead >= \hA1 /\ lead <= \hFE /\ trail
                            THEN IF jis0212 THEN Jis0212(pointer) ELSE Jis0208(pointer)
                            ELSE NoCodePoint
                  IN  IF cp # NoCodePoint
                      THEN EucJpRun(b, i + 1, 0, FALSE, out \o Utf8Of(cp), err)
                      ELSE EucJpRun(b, IF IsAscii(byte) THEN i ELSE i + 1, 0, FALSE,
                                    out \o REPLACEMENT, TRUE)
             ELSE IF IsAscii(byte)
             THEN EucJpRun(b, i + 1, 0, FALSE, out \o <<byte>>, err)
             ELSE IF byte = \h8E \/ byte = \h8F \/ trail
             THEN EucJpRun(b, i + 1, byte, FALSE, out, err)
             ELSE EucJpRun(b, i + 1, 0, FALSE, out \o REPLACEMENT, TRUE)

EucJpDecode(b) == EucJpRun(b, 1, 0, FALSE, <<>>, FALSE)

(***************************************************************************)
(* ISO-2022-JP decoder: the state machine over escape sequences.  A        *)
(* "restored" byte is read again in the state the decoder falls back to.   *)
(***************************************************************************)
EscapeTarget(lead, byte) ==
    CASE lead = \h28 /\ byte = \h42 -> "ASCII"
      [] lead = \h28 /\ byte = \h4A -> "Roman"
      [] lead = \h28 /\ byte = \h49 -> "Katakana"
      [] lead = \h24 /\ (byte = \h40 \/ byte = \h42) -> "LeadByte"
      [] OTHER -> "none"

RECURSIVE Iso2022JpRun(_, _, _, _, _, _, _, _)
Iso2022JpRun(b, i, st, ost, lead, oflag, out, err) ==
    LET eof == i > Len(b)
        byte == IF eof THEN -1 ELSE b[i]
        Fail(j) == Iso2022JpRun(b, j, st, ost, lead, FALSE, out \o REPLACEMENT, TRUE)
        Emit(cp) == Iso2022JpRun(b, i + 1, st, ost, lead, FALSE, out \o Utf8Of(cp), err)
        Plain == IsAscii(byte) /\ byte \notin {\h0E, \h0F, \h1B}
    IN  CASE st = "EscapeStart" ->
               IF byte = \h24 \/ byte = \h28
               THEN Iso2022JpRun(b, i + 1, "Escape", ost, byte, oflag, out, err)
               ELSE Iso2022JpRun(b, i, ost, ost, lead, FALSE, out \o REPLACEMENT, TRUE)
          [] st = "Escape" ->
               LET to == IF eof THEN "none" ELSE EscapeTarget(lead, byte)
               IN  IF to # "none"
                   THEN Iso2022JpRun(b, i + 1, to, to, 0, TRUE,
                                     IF oflag THEN out \o REPLACEMENT ELSE out,
                                     err \/ oflag)
                   ELSE IF eof
                   THEN Iso2022JpRun(Append(b, lead), i, ost, ost, 0, FALSE,
                                     out \o REPLACEMENT, TRUE)
                   ELSE Iso2022JpRun(b, i - 1, ost, ost, 0, FALSE, out \o REPLACEMENT, TRUE)
          [] st = "TrailByte" ->
               IF eof THEN Decoded(out \o REPLACEMENT, TRUE)
               ELSE IF byte = \h1B
               THEN Iso2022JpRun(b, i + 1, "EscapeStart", ost, lead, oflag,
                                 out \o REPLACEMENT, TRUE)
               ELSE IF byte >= \h21 /\ byte <= \h7E
               THEN LET cp == Jis0208((lead - \h21) * 94 + byte - \h21)
                    IN  Iso2022JpRun(b, i + 1, "LeadByte", ost, lead, oflag,
                                     out \o (IF cp = NoCodePoint THEN REPLACEMENT
                                             ELSE Utf8Of(cp)),
                                     err \/ cp = NoCodePoint)
               ELSE Iso2022JpRun(b, i + 1, "LeadByte", ost, lead, oflag,
                                 out \o REPLACEMENT, TRUE)
          [] eof /\ st \in {"ASCII", "Roman", "Katakana", "LeadByte"} -> Decoded(out, err)
          [] ~eof /\ st \in {"ASCII", "Roman", "Katakana", "LeadByte"} /\ byte = \h1B ->
               Iso2022JpRun(b, i + 1, "EscapeStart", ost, lead, oflag, out, err)
          [] ~eof /\ st = "ASCII" /\ byte # \h1B ->
               IF Plain THEN Emit(byte) ELSE Fail(i + 1)
          [] ~eof /\ st = "Roman" /\ byte # \h1B ->
               IF byte = \h5C THEN Emit(\hA5)
               ELSE IF byte = \h7E THEN Emit(\h203E)
               ELSE IF Plain THEN Emit(byte)
               ELSE Fail(i + 1)
          [] ~eof /\ st = "Katakana" /\ byte # \h1B ->
               IF byte >= \h21 /\ byte <= \h5F THEN Emit(\hFF61 - \h21 + byte)
               ELSE Fail(i + 1)
          [] ~eof /\ st = "LeadByte" /\ byte # \h1B ->
               IF byte >= \h21 /\ byte <= \h7E
               THEN Iso2022JpRun(b, i + 1, "TrailByte", ost, byte, FALSE, out, err)
               ELSE Fail(i + 1)

Iso2022JpDecode(b) == Iso2022JpRun(b, 1, "ASCII", "ASCII", 0, FALSE, <<>>, FALSE)

(***************************************************************************)
(* The encoders of encoding_rs (Encoding::encode): what the tests and the  *)
(* module's example produce their bytes with.  A character the encoding    *)
(* cannot represent becomes a decimal numeric character reference and sets *)
(* had_errors.  Half-width katakana (U+FF61..U+FF9F) under ISO-2022-JP are *)
(* outside the characters modelled.                                        *)
(***************************************************************************)
Encoded(b, had_errors) == [bytes |-> b, had_errors |-> had_errors]

RECURSIVE DecimalDigits(_)
DecimalDigits(n) ==
    IF n < 10 THEN <<\h30 + n>> ELSE Append(DecimalDigits(n \div 10), \h30 + (n % 10))

NumericReference(cp) == <<\h26, \h23>> \o DecimalDigits(cp) \o <<\h3B>>

Utf8Encode(s) == Encoded(s, FALSE)

ShiftJisChar(cp) ==
    LET c == IF cp = \h2212 THEN \hFF0D ELSE cp
        pointer == Jis0208Pointer(c)
        lead == pointer \div 188
        trail == pointer % 188
    IN  IF IsAscii(cp) \/ cp = \h80 THEN <<cp>>
        ELSE IF cp = \hA5 THEN <<\h5C>>
        ELSE IF cp = \h203E THEN <<\h7E>>
        ELSE IF cp >= \hFF61 /\ cp <= \hFF9F THEN <<cp - \hFF61 + \hA1>>
        ELSE IF pointer = NoCodePoint THEN <<>>
        ELSE <<lead + (IF lead < \h1F THEN \h81 ELSE \hC1),
               trail + (IF trail < \h3F THEN \h40 ELSE \h41)>>

EucJpChar(cp) ==
    LET c == IF cp = \h2212 THEN \hFF0D ELSE cp
        pointer == Jis0208Pointer(c)
    IN  IF IsAscii(cp) THEN <<cp>>
        ELSE IF cp = \hA5 THEN <<\h5C>>
        ELSE IF cp = \h203E THEN <<\h7E>>
        ELSE IF cp >= \hFF61 /\ cp <= \hFF9F THEN <<\h8E, cp - \hFF61 + \hA1>>
        ELSE IF pointer = NoCodePoint THEN <<>>
        ELSE <<(pointer \div 94) + \hA1, (pointer % 94) + \hA1>>

\* Character by character; <<>> stands for a character that cannot be mapped.
RECURSIVE EncodeChars(_, _, _, _)
EncodeChars(encoding, cps, out, err) ==
    IF cps = <<>> THEN Encoded(out, err)
    ELSE LET one == IF encoding = "SHIFT_JIS" THEN ShiftJisChar(Head(cps))
                    ELSE EucJpChar(Head(cps))
         IN  IF one = <<>>
             THEN EncodeChars(encoding, Tail(cps), out \o NumericReference(Head(cps)), TRUE)
             ELSE EncodeChars(encoding, Tail(cps), out \o one, err)

ShiftJisEncode(s) == EncodeChars("SHIFT_JIS", Chars(s), <<>>, FALSE)
EucJpEncode(s) == EncodeChars("EUC_JP", Chars(s), <<>>, FALSE)

ToAscii == <<\h1B, \h28, \h42>>
ToRoman == <<\h1B, \h28, \h4A>>
ToJis0208 == <<\h1B, \h24, \h42>>

RECURSIVE Iso2022JpEnc(_, _, _, _)
Iso2022JpEnc(cps, st, out, err) ==
    IF cps = <<>> THEN Encoded(IF st # "ASCII" THEN out \o ToAscii ELSE out, err)
    ELSE LET cp == Head(cps)
             c == IF cp = \h2212 THEN \hFF0D ELSE cp
             pointer == Jis0208Pointer(c)
             yenOrOverline == cp = \hA5 \/ cp = \h203E
         IN  IF st \in {"ASCII", "Roman"} /\ cp \in {\h0E, \h0F, \h1B}
             THEN Iso2022JpEnc(Tail(cps), st, out \o NumericReference(\hFFFD), TRUE)
             ELSE IF st = "ASCII" /\ IsAscii(cp)
             THEN Iso2022JpEnc(Tail(cps), st, out \o <<cp>>, err)
             ELSE IF st = "Roman" /\ ((IsAscii(cp) /\ cp \notin {\h5C, \h7E}) \/ yenOrOverline)
             THEN Iso2022JpEnc(Tail(cps), st,
                               out \o <<IF cp = \hA5 THEN \h5C
                                        ELSE IF cp = \h203E THEN \h7E ELSE cp>>, err)
             ELSE IF IsAscii(cp) /\ st # "ASCII"
             THEN Iso2022JpEnc(cps, "ASCII", out \o ToAscii, err)
             ELSE IF yenOrOverline /\ st # "Roman"
             THEN Iso2022JpEnc(cps, "Roman", out \o ToRoman, err)
             ELSE IF pointer = NoCodePoint
             THEN IF st = "jis0208"
                  THEN Iso2022JpEnc(Tail(cps), "ASCII",
                                    out \o ToAscii \o NumericReference(cp), TRUE)
                  ELSE Iso2022JpEnc(Tail(cps), st, out \o NumericReference(cp), TRUE)
             ELSE IF st # "jis0208"
             THEN Iso2022JpEnc(cps, "jis0208", out \o ToJis0208, err)
             ELSE Iso2022JpEnc(Tail(cps), st,
                               out \o <<(pointer \div 94) + \h21, (pointer % 94) + \h21>>, err)

Iso2022JpEncode(s) == Iso2022JpEnc(Chars(s), "ASCII", <<>>, FALSE)

(***************************************************************************)
(* encoding_rs::Encoding::decode: BOM sniffing first, then the decoder of  *)
(* the encoding that is used, with the BOM removed.                        *)
(***************************************************************************)
StartsWith(b, p) == Len(b) >= Len(p) /\ SubSeq(b, 1, Len(p)) = p

for_bom(b) ==
    IF StartsWith(b, <<\hEF, \hBB, \hBF>>) THEN [encoding |-> "UTF_8", length |-> 3]
    ELSE IF StartsWith(b, <<\hFF, \hFE>>) THEN [encoding |-> "UTF_16LE", length |-> 2]
    ELSE IF StartsWith(b, <<\hFE, \hFF>>) THEN [encoding |-> "UTF_16BE", length |-> 2]
    ELSE [encoding |-> "none", length |-> 0]

decode_without_bom_handling(encoding, b) ==
    CASE encoding = "UTF_8" -> Utf8Decode(b)
      [] encoding = "SHIFT_JIS" -> ShiftJisDecode(b)
      [] encoding = "ISO_2022_JP" -> Iso2022JpDecode(b)
      [] encoding = "EUC_JP" -> EucJpDecode(b)
      [] encoding = "UTF_16LE" -> Utf16Decode(b, FALSE)
      [] encoding = "UTF_16BE" -> Utf16Decode(b, TRUE)

EncodingDecode_without_bom_handling(decoder, b) ==
    LET d == decode_without_bom_handling(decoder, b)
    IN  [cow |-> d.text, encoding_used |-> decoder, had_errors |-> d.had_errors]
\* (cow, encoding_used, had_errors)
EncodingDecode(decoder, b) ==
    LET bom == for_bom(b)
        used == IF bom.encoding = "none" THEN decoder ELSE bom.encoding
        d == decode_without_bom_handling(used, SubSeq(b, bom.length + 1, Len(b)))
    IN  [cow |-> d.text, encoding_used |-> used, had_errors |-> d.had_errors]

EncodingEncode(encoding, s) ==
    CASE encoding = "UTF_8" -> Utf8Encode(s)
      [] encoding = "SHIFT_JIS" -> ShiftJisEncode(s)
      [] encoding = "ISO_2022_JP" -> Iso2022JpEncode(s)
      [] encoding = "EUC_JP" -> EucJpEncode(s)

(***************************************************************************)
(* OsStr::from_encoded_bytes_unchecked(input).to_string_lossy().  The      *)
(* unchecked constructor is handed bytes that need not be an OsStr's       *)
(* encoding, so what comes back depends on the target: on Unix the bytes   *)
(* go through String::from_utf8_lossy, on Windows they are taken for WTF-8 *)
(* and only surrogate triples (ED A0..BF xx) are replaced.                 *)
(***************************************************************************)
RECURSIVE Wtf8Lossy(_, _, _)
Wtf8Lossy(b, i, out) ==
    IF i > Len(b) THEN out
    ELSE LET x == b[i]
             n == IF x < \h80 THEN 1 ELSE IF x < \hE0 THEN 2 ELSE IF x < \hF0 THEN 3 ELSE 4
             stop == IF i + n - 1 > Len(b) THEN Len(b) ELSE i + n - 1
         IN  IF x = \hED /\ i + 2 <= Len(b) /\ b[i + 1] >= \hA0
             THEN Wtf8Lossy(b, i + 3, out \o REPLACEMENT)
             ELSE Wtf8Lossy(b, stop + 1, out \o SubSeq(b, i, stop))

to_string_lossy(b) == {Utf8Decode(b).text, Wtf8Lossy(b, 1, <<>>)}

(***************************************************************************)
(* impl Charset { fn decode }                                              *)
(***************************************************************************)
DOk(text) == [ok |-> TRUE, text |-> text]
DErr == [ok |-> FALSE]

DecoderOf_swapped(self) ==
    CASE self = "ASCII" -> "UTF_8"
      [] self = "ShiftJIS" -> "EUC_JP"
      [] self = "ISO2022JP" -> "ISO_2022_JP"
      [] self = "EUCJP" -> "SHIFT_JIS"
      [] self = "UTF8" -> "UTF_8"
DecoderOf(self) ==
    CASE self = "ASCII" -> "UTF_8"
      [] self = "ShiftJIS" -> "SHIFT_JIS"
      [] self = "ISO2022JP" -> "ISO_2022_JP"
      [] self = "EUCJP" -> "EUC_JP"
      [] self = "UTF8" -> "UTF_8"

Checked_ignoring_encoding(decoder, r) == IF r.had_errors THEN DErr ELSE DOk(r.cow)
Checked_lenient(decoder, r) == IF r.encoding_used # decoder THEN DErr ELSE DOk(r.cow)
\* The tail of decode: Err(()) when had_errors or the encoding used is not the
\* decoder asked for, Ok(cow) otherwise.
Checked(decoder, r) ==
    IF r.had_errors \/ r.encoding_used # decoder THEN DErr ELSE DOk(r.cow)

decode_default_utf8(self, in) ==
    LET decoder == IF self = "Default" THEN "UTF_8" ELSE DecoderOf(self)
    IN  {Checked(decoder, EncodingDecode(decoder, in))}
decode_ascii_strict(self, in) ==
    IF self = "Default" THEN {DOk(t) : t \in to_string_lossy(in)}
    ELSE IF self = "ASCII" /\ \E i \in 1..Len(in) : ~IsAscii(in[i]) THEN {DErr}
    ELSE {Checked(DecoderOf(self), EncodingDecode(DecoderOf(self), in))}
\* The results decode can return (one, except under Charset::Default).
decode(self, in) ==
    IF self = "Default" THEN {DOk(t) : t \in to_string_lossy(in)}
    ELSE {Checked(DecoderOf(self), EncodingDecode(DecoderOf(self), in))}

(***************************************************************************)
(* The parser's inputs: a head (a label, a proper prefix of one, a         *)
(* misspelling, or text that is no label) followed by a short suffix.      *)
(***************************************************************************)
SuffixChars == {"\r", "\n", ".", "P"}

Heads ==
    UNION {Prefixes(l) : l \in {<<"A", "S", "C", "I", "I">>,
                                <<"S", "h", "i", "f", "t", "_", "J", "I", "S">>,
                                <<"I", "S", "O", "-", "2", "0", "2", "2", "-", "J", "P">>,
                                <<"E", "U", "C", "-", "J", "P">>,
                                <<"U", "T", "F", "-", "8">>}}
    \cup {<<"a", "s", "c", "i", "i">>, <<"U", "T", "F", "8">>, <<"u", "t", "f", "-", "8">>,
          <<" ", "A", "S", "C", "I", "I">>, <<"x", "7", "6">>,
          <<"s", "h", "i", "f", "t", "_", "j", "i", "s">>,
          <<"E", "U", "C", "_", "J", "P">>, <<"\n", "U", "T", "F", "-", "8">>}

Inputs == {h \o s : h \in Heads, s \in SeqsUpTo(SuffixChars, MaxSuffixLen)}

(***************************************************************************)
(* The decoder's inputs: raw bytes built unit by unit (a byte, or the      *)
(* bytes of one supplementary-plane character), optionally behind a byte   *)
(* order mark; or the bytes an encoder of encoding_rs makes of a text.     *)
(***************************************************************************)
ByteAlphabet == {\h41, \h80, \h82, \hA0, \hA4, \hF4, \hFF}
Units == {<<x>> : x \in ByteAlphabet} \cup {Utf8Of(\h100000)}
Boms == {<<\hEF, \hBB, \hBF>>, <<\hFF, \hFE>>, <<\hFE, \hFF>>}

TextChars == {\h41, \h3042, \h3044, \hA5, \hFEFF}
Texts == {Utf8OfAll(cps) : cps \in SeqsUpTo(TextChars, MaxChars)}
Encodings == {"UTF_8", "SHIFT_JIS", "ISO_2022_JP", "EUC_JP"}

NoP == [ok |-> FALSE, errors |-> <<>>]

Init ==
    /\ pc = "idle"
    /\ input = <<>>
    /\ presult = NoP
    /\ bytes = <<>>
    /\ units = 0
    /\ src = <<>>
    /\ enc = "none"
    /\ encErr = FALSE
    /\ cs = "Default"
    /\ dresult = DErr

\* One call of parse_charset.
ParseCharset ==
    /\ pc = "idle"
    /\ \E in \in Inputs :
          /\ input' = in
          /\ presult' = parse_charset(in)
    /\ pc' = "parsed"
    /\ UNCHANGED <<bytes, units, src, enc, encErr, cs, dresult>>

\* The caller reads one more unit of raw bytes.
AppendUnit ==
    /\ pc \in {"idle", "raw"}
    /\ units < MaxUnits
    /\ \E u \in Units : bytes' = bytes \o u
    /\ units' = units + 1
    /\ pc' = "raw"
    /\ UNCHANGED <<input, presult, src, enc, encErr, cs, dresult>>

\* The raw bytes turn out to sit behind a byte order mark.
PrependBom ==
    /\ pc \in {"idle", "raw"}
    /\ \E bom \in Boms : bytes' = bom \o bytes
    /\ pc' = "marked"
    /\ UNCHANGED <<input, presult, units, src, enc, encErr, cs, dresult>>

\* The tests' way to bytes: encoding.encode(text).
Encode ==
    /\ pc = "idle"
    /\ \E e \in Encodings, s \in Texts :
          LET r == EncodingEncode(e, s)
          IN  /\ src' = s
              /\ enc' = e
              /\ bytes' = r.bytes
              /\ encErr' = r.had_errors
    /\ pc' = "encoded"
    /\ UNCHANGED <<input, presult, units, cs, dresult>>

\* One call of charset.decode(&bytes).
Decode ==
    /\ pc \in {"idle", "raw", "marked", "encoded"}
    /\ \E self \in Charset :
          /\ cs' = self
          /\ dresult' \in decode(self, bytes)
    /\ pc' = "decoded"
    /\ UNCHANGED <<input, presult, bytes, units, src, enc, encErr>>

Next == ParseCharset \/ AppendUnit \/ PrependBom \/ Encode \/ Decode

Spec == Init /\ [][Next]_vars

(***************************************************************************)
(* The properties checked.  The label table is the one of the              *)
(* specification: label text, identifier.                                  *)
(***************************************************************************)
LabelText ==
    <<  <<"A", "S", "C", "I", "I">>,
        <<"S", "h", "i", "f", "t", "_", "J", "I", "S">>,
        <<"I", "S", "O", "-", "2", "0", "2", "2", "-", "J", "P">>,
        <<"E", "U", "C", "-", "J", "P">>,
        <<"U", "T", "F", "-", "8">>  >>
LabelIdentifier == <<"ASCII", "ShiftJIS", "ISO2022JP", "EUCJP", "UTF8">>
Labels == 1..5

BeginsWithLabel(in, k) == StartsWith(in, LabelText[k])
After(in, k) == SubSeq(in, Len(LabelText[k]) + 1, Len(in))

\* C1: whenever the input is a label of the table followed by any suffix,
\* parse_charset succeeds with exactly that suffix as the remainder and the
\* identifier the table gives the label.
C1_LabelThenSuffix ==
    pc = "parsed" =>
        \A k \in Labels :
            BeginsWithLabel(input, k) =>
                presult = POk(After(input, k), LabelIdentifier[k])

C1_Witness ==
    /\ pc = "parsed"
    /\ input = LabelText[3] \o <<".", "P">>
    /\ presult = POk(<<".", "P">>, "ISO2022JP")

\* C2: an input that does not begin with one of the five exact literals (the
\* empty text, a proper prefix, another case, a missing hyphen, leading
\* whitespace) is answered with an error that carries no identifier.
C2_NoLabelNoIdentifier ==
    (pc = "parsed" /\ \A k \in Labels : ~BeginsWithLabel(input, k)) =>
        /\ ~presult.ok
        /\ "value" \notin DOMAIN presult

C2_Witness ==
    /\ pc = "parsed"
    /\ input = <<" ", "A", "S", "C", "I", "I", "\r">>
    /\ ~presult.ok

\* The encoding the specification has each identifier ask the collaborator for.
Requested(id) ==
    CASE id \in {"ASCII", "UTF8"} -> "UTF_8"
      [] id = "ShiftJIS" -> "SHIFT_JIS"
      [] id = "ISO2022JP" -> "ISO_2022_JP"
      [] id = "EUCJP" -> "EUC_JP"

\* C3: under every identifier but Default, decode succeeds exactly when the
\* collaborator reports no error and reports the requested encoding as the
\* one used; a success carries the collaborator's text, a failure no text.
C3_SuccessIffCleanAndSameEncoding ==
    (pc = "decoded" /\ cs # "Default") =>
        LET r == EncodingDecode(Requested(cs), bytes)
        IN  /\ dresult.ok <=> (~r.had_errors /\ r.encoding_used = Requested(cs))
            /\ dresult.ok => dresult = DOk(r.cow)
            /\ ~dresult.ok => DOMAIN dresult = {"ok"}

\* Clean bytes behind a UTF-8 BOM, under ShiftJIS: refused for the encoding alone.
C3_Witness ==
    /\ pc = "decoded"
    /\ cs = "ShiftJIS"
    /\ bytes = <<\hEF, \hBB, \hBF, \h41>>
    /\ ~EncodingDecode("SHIFT_JIS", bytes).had_errors
    /\ ~dresult.ok

\* C4: under Default, decode returns a success carrying a text for every
\* byte sequence, never the decode error.
C4_DefaultNeverFails ==
    (pc = "decoded" /\ cs = "Default") =>
        /\ dresult.ok
        /\ "text" \in DOMAIN dresult

\* A byte that no encoding accepts.
C4_Witness ==
    /\ pc = "decoded"
    /\ cs = "Default"
    /\ bytes = <<\hFF>>
    /\ \A e \in Encodings : EncodingDecode(e, bytes).had_errors
    /\ dresult.ok

Matching(id, encoding) == id # "Default" /\ Requested(id) = encoding

IsHiragana(cp) == cp >= \h3041 /\ cp <= \h3093
IsPrintableAscii(cp) == cp >= \h20 /\ cp <= \h7E
PlainJapanese(s) ==
    \A i \in 1..Len(Chars(s)) : IsHiragana(Chars(s)[i]) \/ IsPrintableAscii(Chars(s)[i])
HasHiragana(s) == \E i \in 1..Len(Chars(s)) : IsHiragana(Chars(s)[i])

\* C5 as claimed: every string its encoder can encode comes back exactly from
\* decode under the matching identifier.
C5_RoundTripEveryString ==
    (pc = "decoded" /\ enc # "none" /\ ~encErr /\ Matching(cs, enc)) =>
        dresult = DOk(src)

\* C5, amended: a string of printable ASCII characters and hiragana comes
\* back exactly from decode under the matching identifier.
C5_RoundTripPlainJapanese ==
    (pc = "decoded" /\ enc # "none" /\ ~encErr /\ Matching(cs, enc) /\ PlainJapanese(src)) =>
        dresult = DOk(src)

C5_Witness ==
    /\ pc = "decoded"
    /\ enc = "ISO_2022_JP"
    /\ cs = "ISO2022JP"
    /\ src = Utf8OfAll(<<\h3042, \h41>>)
    /\ ~encErr
    /\ dresult = DOk(src)

\* C6 as claimed: bytes encoded under one encoding fail to decode under
\* every identifier (Default aside) of another encoding.
C6_EveryMismatchFails ==
    (/\ pc = "decoded" /\ enc # "none" /\ ~encErr /\ HasHiragana(src)
     /\ cs # "Default" /\ ~Matching(cs, enc)) =>
        ~dresult.ok

\* The mismatched pairs that do fail on plain Japanese text.
MustFail(id, encoding) ==
    \/ id \in {"UTF8", "ASCII"} /\ encoding \in {"SHIFT_JIS", "EUC_JP"}
    \/ id = "ISO2022JP" /\ encoding \in {"SHIFT_JIS", "EUC_JP", "UTF_8"}
    \/ id = "EUCJP" /\ encoding \in {"SHIFT_JIS", "UTF_8"}

\* C6, amended: for a string of printable ASCII and hiragana with at least
\* one hiragana, decode fails on its Shift_JIS or EUC-JP bytes under UTF8 or
\* ASCII, on its Shift_JIS, EUC-JP or UTF-8 bytes under ISO2022JP, and on its
\* Shift_JIS or UTF-8 bytes under EUCJP.
C6_ListedMismatchesFail ==
    (/\ pc = "decoded" /\ enc # "none" /\ ~encErr
     /\ PlainJapanese(src) /\ HasHiragana(src) /\ MustFail(cs, enc)) =>
        dresult = DErr

C6_Witness ==
    /\ pc = "decoded"
    /\ enc = "SHIFT_JIS"
    /\ cs = "UTF8"
    /\ src = Utf8OfAll(<<\h3042, \h3044>>)
    /\ dresult = DErr

\* C7: ASCII and UTF8 decode alike: what decode returned under one of them is
\* what it returns under the other, for the same bytes.
C7_AsciiLikeUtf8 ==
    (pc = "decoded" /\ cs \in {"ASCII", "UTF8"}) =>
        /\ dresult \in decode("ASCII", bytes)
        /\ dresult \in decode("UTF8", bytes)

\* Valid UTF-8 above 0x7F is accepted under ASCII.
C7_Witness ==
    /\ pc = "decoded"
    /\ cs = "ASCII"
    /\ bytes = <<\h41>> \o Utf8Of(\h100000)
    /\ dresult = DOk(bytes)

\* C8: a successful parse yields one of the five labelled identifiers, never
\* Default, and the identifier tells the label: no two labels share one.
C8_NeverDefaultAndInjective ==
    (pc = "parsed" /\ presult.ok) =>
        /\ presult.value \in Charset \ {"Default"}
        /\ \A k \in Labels :
              (parse_charset(LabelText[k]).ok
                 /\ parse_charset(LabelText[k]).value = presult.value)
              => BeginsWithLabel(input, k)

C8_Witness ==
    /\ pc = "parsed"
    /\ input = LabelText[5] \o <<"\r", "\n">>
    /\ presult.ok
    /\ presult.value = "UTF8"

Permutations5 ==
    {p \in [Labels -> Labels] : \A i, j \in Labels : p[i] = p[j] => i = j}

SameOutcome(r1, r2) ==
    /\ r1.ok = r2.ok
    /\ r1.ok => (r1.remain = r2.remain /\ r1.value = r2.value)

\* C9: no alternative accepts another alternative's label, and trying the
\* five alternatives in any order gives the outcome of the code's order.
C9_OrderIrrelevant ==
    pc = "parsed" =>
        /\ \A k1, k2 \in Labels : Alternative(k2, LabelText[k1]).ok <=> (k1 = k2)
        /\ \A p \in Permutations5 : SameOutcome(alt(p, 1, input), presult)

C9_Witness ==
    /\ pc = "parsed"
    /\ input = LabelText[4] \o <<"\n">>
    /\ presult.ok
    /\ SameOutcome(alt(<<5, 4, 3, 2, 1>>, 1, input), presult)

ValidUtf8(b) == ~Utf8Decode(b).had_errors
Utf8Bom == <<\hEF, \hBB, \hBF>>

\* C10 as claimed: valid UTF-8 decodes under ASCII or UTF8 to a text whose
\* bytes are the input bytes.
C10_TextIsInput ==
    (pc = "decoded" /\ cs \in {"ASCII", "UTF8"} /\ ValidUtf8(bytes)) =>
        dresult = DOk(bytes)

\* C10, amended: valid UTF-8 decodes under ASCII or UTF8 to a text whose bytes
\* are the input bytes, less a leading byte order mark EF BB BF.
C10_TextIsInputLessBom ==
    (pc = "decoded" /\ cs \in {"ASCII", "UTF8"} /\ ValidUtf8(bytes)) =>
        dresult = DOk(IF StartsWith(bytes, Utf8Bom)
                      THEN SubSeq(bytes, 4, Len(bytes)) ELSE bytes)

C10_Witness ==
    /\ pc = "decoded"
    /\ cs = "UTF8"
    /\ bytes = Utf8Bom \o <<\h41>>
    /\ dresult = DOk(<<\h41>>)
====
